---- MODULE Spec2Model ----
(***************************************************************************)
(* A model of circler: the build-graph compiler that turns a list of nix   *)
(* derivations into a CircleCI continuation pipeline.                      *)
(*                                                                         *)
(* Strings are modelled as tuples of one-character strings, so that        *)
(* get_safe_name and the key order of yaml.dump are computed, not assumed. *)
(* A Python dict is an insertion-ordered sequence of [k, v] entries.       *)
(***************************************************************************)
EXTENDS Integers, Sequences, FiniteSets, TLC

\* ------------------------------------------------------------------ bounds

\* number of nodes of the graphs handed to the reducers
MaxNodes == 4

\* number of DictRefs constructed on one Pipeline
MaxRegOps == 3

\* number of units the evaluator lists
MaxUnits == 3

\* number of output paths of all listed units together
MaxPaths == 3

\* units listed to the setup job whose steps are followed to the submission
MaxMainUnits == 2

\* ------------------------------------------------------------ Python dicts

\* the keys of a dict, in insertion order
Keys(d) == [i \in 1..Len(d) |-> d[i].k]

KeySet(d) == {d[i].k : i \in 1..Len(d)}

\* k in d
DictHas(d, k) == \E i \in 1..Len(d) : d[i].k = k

\* d[k], for a key that is present
DictGet(d, k) == d[CHOOSE i \in 1..Len(d) : d[i].k = k].v

\* d[k] = v: an existing key keeps its position and takes the new value
DictSet(d, k, v) ==
    IF DictHas(d, k)
    THEN [i \in 1..Len(d) |-> IF d[i].k = k THEN [k |-> k, v |-> v] ELSE d[i]]
    ELSE Append(d, [k |-> k, v |-> v])

\* del d[k]
DictDel(d, k) == SelectSeq(d, LAMBDA e : e.k # k)

\* the element of a one-element set (binds a value that is computed once)
Only(S) == CHOOSE x \in S : TRUE

\* the elements of a list
SeqSet(xs) == {xs[i] : i \in 1..Len(xs)}

\* every duplicate-free list over the set S
RECURSIVE ListsOver(_)
ListsOver(S) ==
    {<<>>} \cup UNION {{<<x>> \o t : t \in ListsOver(S \ {x})} : x \in S}

\* ---------------------------------------------------------------- graphs

\* the pairs reachable through one or more edges of E (a set of pairs)
RECURSIVE Closure(_)
Closure(E) ==
    LET more == E \cup {<<a[1], b[2]>> : <<a, b>> \in {pq \in E \X E : pq[1][2] = pq[2][1]}}
    IN  IF more = E THEN E ELSE Closure(more)

Acyclic(E) == \A p \in Closure(E) : p[1] # p[2]

\* ------------------------------------------------- drv.py / main.py: graph

\* The Derivation objects live in a heap (a sequence; an object's id is its
\* index) because prune_graph returns fresh objects whose deps are the old
\* objects.  A graph is a dict name -> object id.

DrvPaths == <<"/nix/store/1.drv", "/nix/store/2.drv", "/nix/store/3.drv",
              "/nix/store/4.drv", "/nix/store/5.drv">>

\* dataclass equality of two Derivations: (name, drv, outputs, deps) compared
\* field by field, each pair by identity first
RECURSIVE DrvEq(_, _, _)
DrvEq(h, i, j) ==
    \/ i = j
    \/ /\ h[i].name = h[j].name
       /\ h[i].drv = h[j].drv
       /\ h[i].outputs = h[j].outputs
       /\ Len(h[i].deps) = Len(h[j].deps)
       /\ \A n \in 1..Len(h[i].deps) : DrvEq(h, h[i].deps[n], h[j].deps[n])

\* dx in ds, for a list of Derivations
DrvIn(h, dx, ds) == \E n \in 1..Len(ds) : DrvEq(h, ds[n], dx)

\* the edges of a graph as its consumers read them: (key, name of a dep)
GraphEdges(h, g) ==
    UNION {{<<g[i].k, h[h[g[i].v].deps[n]].name>> : n \in 1..Len(h[g[i].v].deps)} : i \in 1..Len(g)}

\* the deps of every key, as lists of names
GraphDeps(h, g) ==
    [i \in 1..Len(g) |->
        [k |-> g[i].k,
         v |-> [n \in 1..Len(h[g[i].v].deps) |-> h[h[g[i].v].deps[n]].name]]]

\* prune_graph testing the whole dependency closure of dy, not dy.deps
PruneGraphTransitive(h, g) ==
    LET E == UNION {{<<i, h[i].deps[n]>> : n \in 1..Len(h[i].deps)} : i \in 1..Len(h)}
        Needed(v, dx) ==
            ~\E m \in 1..Len(v.deps) : \E y \in 1..Len(h) :
                  <<v.deps[m], y>> \in Closure(E) /\ DrvEq(h, y, dx)
        New(i) == LET v == h[g[i].v]
                  IN  [name |-> v.name, drv |-> v.drv, outputs |-> v.outputs,
                       deps |-> SelectSeq(v.deps, LAMBDA dx : Needed(v, dx))]
    IN  [heap |-> h \o [i \in 1..Len(g) |-> New(i)],
         g    |-> [i \in 1..Len(g) |-> [k |-> g[i].k, v |-> Len(h) + i]]]

\* prune_graph with the test turned round: dy in dx.deps
PruneGraphReversed(h, g) ==
    LET Needed(v, dx) ==
            ~\E m \in 1..Len(v.deps) : DrvIn(h, v.deps[m], h[dx].deps)
        New(i) == LET v == h[g[i].v]
                  IN  [name |-> v.name, drv |-> v.drv, outputs |-> v.outputs,
                       deps |-> SelectSeq(v.deps, LAMBDA dx : Needed(v, dx))]
    IN  [heap |-> h \o [i \in 1..Len(g) |-> New(i)],
         g    |-> [i \in 1..Len(g) |-> [k |-> g[i].k, v |-> Len(h) + i]]]

\* prune_graph assigning the reduced list to cur.deps instead of building a
\* fresh Derivation
PruneGraphInPlace(h, g) ==
    LET Needed(v, dx) ==
            ~\E m \in 1..Len(v.deps) : DrvIn(h, dx, h[v.deps[m]].deps)
        New(v) == [name |-> v.name, drv |-> v.drv, outputs |-> v.outputs,
                   deps |-> SelectSeq(v.deps, LAMBDA dx : Needed(v, dx))]
    IN  [heap |-> [i \in 1..Len(h) |->
                      IF \E j \in 1..Len(g) : g[j].v = i THEN New(h[i]) ELSE h[i]],
         g    |-> g]

\* prune_graph(g): a fresh Derivation per key, keeping the dep dx of cur
\* unless dx is in the deps of some dep dy of cur
PruneGraph(h, g) ==
    LET Needed(v, dx) ==
            ~\E m \in 1..Len(v.deps) : DrvIn(h, dx, h[v.deps[m]].deps)
        New(i) == LET v == h[g[i].v]
                  IN  [name |-> v.name, drv |-> v.drv, outputs |-> v.outputs,
                       deps |-> SelectSeq(v.deps, LAMBDA dx : Needed(v, dx))]
    IN  [heap |-> h \o [i \in 1..Len(g) |-> New(i)],
         g    |-> [i \in 1..Len(g) |-> [k |-> g[i].k, v |-> Len(h) + i]]]

\* get_safe_name(name): name.replace(".", "_")
GetSafeName(name) == [i \in 1..Len(name) |-> IF name[i] = "." THEN "_" ELSE name[i]]

\* result.get(o) is None: the path is missing from the answer, or null
Absent(result, o) == ~DictHas(result, o) \/ DictGet(result, o) = "null"

\* filter_cached that drops a unit as soon as one output is present
RECURSIVE FilterCachedAny(_, _, _, _)
FilterCachedAny(h, drvs, result, todo) ==
    IF todo = <<>> THEN drvs
    ELSE LET d == h[Head(todo)]
             anyPresent == \E i \in 1..Len(d.outputs) : ~Absent(result, d.outputs[i].v)
         IN  FilterCachedAny(h, IF anyPresent THEN DictDel(drvs, d.name) ELSE drvs,
                             result, Tail(todo))

\* filter_cached that never deletes
FilterCachedNone(h, drvs, result, todo) == drvs

\* filter_cached(drvs): for d in list(drvs.values()), del drvs[d.name] when
\* no output of d is absent from the answer of the cache (todo: the values
\* still to visit)
RECURSIVE FilterCached(_, _, _, _)
FilterCached(h, drvs, result, todo) ==
    IF todo = <<>> THEN drvs
    ELSE LET d == h[Head(todo)]
             allPresent == \A i \in 1..Len(d.outputs) : ~Absent(result, d.outputs[i].v)
         IN  FilterCached(h, IF allPresent THEN DictDel(drvs, d.name) ELSE drvs,
                          result, Tail(todo))

\* the dict comprehension {i["attr"]: Derivation(...) for i in items}; the
\* Derivation of item n is object n of the heap
RECURSIVE DrvsOf(_, _)
DrvsOf(items, n) ==
    IF n = 0 THEN <<>> ELSE DictSet(DrvsOf(items, n - 1), items[n].attr, n)

\* {i.drv: drvs[i.name] for i in drvs.values()}
RECURSIVE DrvMapOf(_, _, _)
DrvMapOf(h, drvs, n) ==
    IF n = 0 THEN <<>>
    ELSE LET i == h[drvs[n].v]
         IN  DictSet(DrvMapOf(h, drvs, n - 1), i.drv, DictGet(drvs, i.name))

\* load_derivations without the test d != v.drv
LoadDerivationsKeepingSelf(items, result, reqs) ==
    LET h0 == [n \in 1..Len(items) |->
                 [name |-> items[n].attr, drv |-> items[n].drvPath,
                  outputs |-> items[n].outputs, deps |-> <<>>]]
        all == DrvsOf(items, Len(items))
        drvs == FilterCached(h0, all, result, [n \in 1..Len(all) |-> all[n].v])
        drvMap == DrvMapOf(h0, drvs, Len(drvs))
        kept == {drvs[n].v : n \in 1..Len(drvs)}
        Deps(v) ==
            LET ds == SelectSeq(DictGet(reqs, h0[v].drv), LAMBDA d : DictHas(drvMap, d))
            IN  [m \in 1..Len(ds) |-> DictGet(drvMap, ds[m])]
    IN  [heap |-> [n \in 1..Len(items) |->
                     IF n \in kept THEN [h0[n] EXCEPT !.deps = Deps(n)] ELSE h0[n]],
         drvs |-> drvs]

\* load_derivations(): the heap of Derivations and the dict of the working
\* set; reqs[d] is what get_all_deps(d) prints
LoadDerivations(items, result, reqs) ==
    LET h0 == [n \in 1..Len(items) |->
                 [name |-> items[n].attr, drv |-> items[n].drvPath,
                  outputs |-> items[n].outputs, deps |-> <<>>]]
        all == DrvsOf(items, Len(items))
        drvs == FilterCached(h0, all, result, [n \in 1..Len(all) |-> all[n].v])
        drvMap == DrvMapOf(h0, drvs, Len(drvs))
        kept == {drvs[n].v : n \in 1..Len(drvs)}
        Deps(v) ==
            LET ds == SelectSeq(DictGet(reqs, h0[v].drv),
                                LAMBDA d : DictHas(drvMap, d) /\ d # h0[v].drv)
            IN  [m \in 1..Len(ds) |-> DictGet(drvMap, ds[m])]
    IN  [heap |-> [n \in 1..Len(items) |->
                     IF n \in kept THEN [h0[n] EXCEPT !.deps = Deps(n)] ELSE h0[n]],
         drvs |-> drvs]

\* ------------------------------------------------ circleci.py: references

\* DictRef: the registry it was made for (by name) and the key
DictRef(reg, key) == [cls |-> "DictRef", reg |-> reg, key |-> key]

\* JobInstance(job, arguments, requires)
JobInstance(job, arguments, requires) ==
    [cls |-> "JobInstance", job |-> job, arguments |-> arguments, requires |-> requires]

\* ------------------------------------------------- steps.py: prune_deps

\* temp @ adj_matrix on boolean matrices of size n
MatMul(a, b, n) ==
    [p \in (1..n) \X (1..n) |-> \E m \in 1..n : a[<<p[1], m>>] /\ b[<<m, p[2]>>]]

\* the loop stopped after its first round: reach_indirect is adj @ adj
PowerLoopOnce(temp, reach, adj, n, iters) ==
    IF iters <= 0 THEN reach
    ELSE LET t == MatMul(temp, adj, n)
         IN  [p \in DOMAIN reach |-> reach[p] \/ t[p]]

\* the loop "for _ in range(iters): temp = temp @ adj; reach_indirect |= temp"
RECURSIVE PowerLoop(_, _, _, _, _)
PowerLoop(temp, reach, adj, n, iters) ==
    IF iters <= 0 THEN reach
    ELSE LET t == MatMul(temp, adj, n)
         IN  PowerLoop(t, [p \in DOMAIN reach |-> reach[p] \/ t[p]], adj, n, iters - 1)

\* transitive_reduction with rows and columns mixed up in the result
TransitiveReductionTransposed(adj, n) ==
    LET zeros == [p \in (1..n) \X (1..n) |-> FALSE]
        reach == PowerLoop(adj, zeros, adj, n, n - 1)
    IN  [p \in (1..n) \X (1..n) |-> adj[<<p[2], p[1]>>] /\ ~reach[<<p[2], p[1]>>]]

\* transitive_reduction(adj_matrix)
TransitiveReduction(adj, n) ==
    LET zeros == [p \in (1..n) \X (1..n) |-> FALSE]
        reach == PowerLoop(adj, zeros, adj, n, n - 1)
    IN  [p \in (1..n) \X (1..n) |-> adj[p] /\ ~reach[p]]

\* nodes_idx_map[v.key] raises KeyError for a key that is no node
PruneDepsRaises(jobs) ==
    \E i \in 1..Len(jobs) : \E r \in SeqSet(jobs[i].v.requires) : ~DictHas(jobs, r.key)

\* prune_deps(jobs), for jobs whose requires all name nodes
PruneDeps(jobs) ==
    LET n == Len(jobs)
        Idx(key) == CHOOSE j \in 1..n : jobs[j].k = key
        adj == [p \in (1..n) \X (1..n) |->
                    \E r \in SeqSet(jobs[p[1]].v.requires) : Idx(r.key) = p[2]]
        red == TransitiveReduction(adj, n)
        Cols(i) == SelectSeq([j \in 1..n |-> j], LAMBDA j : red[<<i, j>>])
        Requires(i) == [m \in 1..Len(Cols(i)) |-> jobs[Cols(i)[m]].v.job]
    IN  [i \in 1..n |->
            [k |-> jobs[i].k,
             v |-> JobInstance(jobs[i].v.job, jobs[i].v.arguments, Requires(i))]]

\* the requires edges of a dict of job instances: (key, key of a required job)
JobEdges(jobs) ==
    UNION {{<<jobs[i].k, jobs[i].v.requires[n].key>> : n \in 1..Len(jobs[i].v.requires)}
           : i \in 1..Len(jobs)}

\* ---------------------------------------------------------------- strings

\* A str is a tuple of characters.  A long text (a step's command) is a tuple
\* of the characters " " and "\n" and of chunks without whitespace.

\* the printable characters in code-point order, from " " (32) to "~" (126);
\* the quote, the backslash and the backtick, which no key of the model
\* holds, are spelled out
Ascii == <<" ", "!", "(quote)", "#", "$", "%", "&", "'", "(", ")", "*", "+", ",", "-", ".", "/", "0", "1", "2", "3", "4", "5", "6", "7", "8", "9", ":", ";", "<", "=", ">", "?", "@", "A", "B", "C", "D", "E", "F", "G", "H", "I", "J", "K", "L", "M", "N", "O", "P", "Q", "R", "S", "T", "U", "V", "W", "X", "Y", "Z", "[", "(backslash)", "]", "^", "_", "(backtick)", "a", "b", "c", "d", "e", "f", "g", "h", "i", "j", "k", "l", "m", "n", "o", "p", "q", "r", "s", "t", "u", "v", "w", "x", "y", "z", "{", "|", "}", "~">>

\* ord(c)
CharCode(c) ==
    IF c = "\n" THEN 10 ELSE 31 + (CHOOSE i \in 1..Len(Ascii) : Ascii[i] = c)

\* a < b for two str: the first differing character decides, else the length
StrLess(a, b) ==
    \/ /\ Len(a) < Len(b)
       /\ \A i \in 1..Len(a) : a[i] = b[i]
    \/ \E i \in 1..Len(a) :
          /\ i <= Len(b)
          /\ \A j \in 1..(i - 1) : a[j] = b[j]
          /\ CharCode(a[i]) < CharCode(b[i])

\* "\n" in data
HasNewline(s) == \E i \in 1..Len(s) : s[i] = "\n"

\* data.lstrip()
RECURSIVE Lstrip(_)
Lstrip(s) ==
    IF s # <<>> /\ s[1] \in {" ", "\n", "\t"} THEN Lstrip(Tail(s)) ELSE s

\* the field names and fixed keys of the document
K ==
    [version |-> <<"v", "e", "r", "s", "i", "o", "n">>,
     jobs |-> <<"j", "o", "b", "s">>,
     workflows |-> <<"w", "o", "r", "k", "f", "l", "o", "w", "s">>,
     executors |-> <<"e", "x", "e", "c", "u", "t", "o", "r", "s">>,
     parameters |-> <<"p", "a", "r", "a", "m", "e", "t", "e", "r", "s">>,
     setup |-> <<"s", "e", "t", "u", "p">>,
     requires |-> <<"r", "e", "q", "u", "i", "r", "e", "s">>,
     run |-> <<"r", "u", "n">>,
     name |-> <<"n", "a", "m", "e">>,
     command |-> <<"c", "o", "m", "m", "a", "n", "d">>,
     shell |-> <<"s", "h", "e", "l", "l">>,
     no_output_timeout |-> <<"n", "o", "_", "o", "u", "t", "p", "u", "t", "_", "t", "i", "m", "e", "o", "u", "t">>,
     type |-> <<"t", "y", "p", "e">>,
     default |-> <<"d", "e", "f", "a", "u", "l", "t">>,
     docker |-> <<"d", "o", "c", "k", "e", "r">>,
     image |-> <<"i", "m", "a", "g", "e">>,
     resource_class |-> <<"r", "e", "s", "o", "u", "r", "c", "e", "_", "c", "l", "a", "s", "s">>,
     executor |-> <<"e", "x", "e", "c", "u", "t", "o", "r">>,
     steps |-> <<"s", "t", "e", "p", "s">>,
     environment |-> <<"e", "n", "v", "i", "r", "o", "n", "m", "e", "n", "t">>,
     when |-> <<"w", "h", "e", "n">>,
     equal |-> <<"e", "q", "u", "a", "l">>,
     not |-> <<"n", "o", "t">>]

\* --------------------------------------------------- circleci.py: documents

\* the serialized tree: maps (ordered), lists, str, bool; None is a value of
\* the model that serialize_base leaves out
Map(items) == [t |-> "map", items |-> items]
List(items) == [t |-> "list", items |-> items]
Str(s) == [t |-> "str", s |-> s]
Bool(b) == [t |-> "bool", b |-> b]
None == [t |-> "none"]

Entry(k, v) == [k |-> k, v |-> v]

\* a dataclass's fields in order, those that are None left out
Sparse(items) == SelectSeq(items, LAMBDA e : e.v # None)

\* NoOpJob()
NoOpJob == [cls |-> "NoOpJob"]

\* StepsJob(executor, steps, parameters, environment, shell)
StepsJob(executor, steps, parameters, environment, shell) ==
    [cls |-> "StepsJob", executor |-> executor, steps |-> steps,
     parameters |-> parameters, environment |-> environment, shell |-> shell]

\* Run(name, command, shell, no_output_timeout)
Run(name, command, shell, timeout) ==
    [cls |-> "Run", name |-> name, command |-> command, shell |-> shell,
     no_output_timeout |-> timeout]

\* Checkout()
Checkout == [cls |-> "Checkout"]

\* Workflow(jobs, when)
Workflow(jobs, when) == [cls |-> "Workflow", jobs |-> jobs, when |-> when]

\* Executor.docker(image, resource_class)
ExecutorDocker(image, resource_class) ==
    [cls |-> "Executor", kind |-> [cls |-> "Docker", image |-> image],
     resource_class |-> resource_class]

\* Executor.docker(image="nixos/nix:latest", resource_class="large")
LargeDocker ==
    ExecutorDocker(Str(<<"nixos/nix:latest">>), Str(<<"l", "a", "r", "g", "e">>))

\* Equal(lhs, rhs)
Equal(lhs, rhs) == [cls |-> "Equal", lhs |-> lhs, rhs |-> rhs]

\* Parameter(type, default)
Parameter(type, default) == [cls |-> "Parameter", type |-> type, default |-> default]

\* Pipeline(setup=..., parameters=...): the registries start empty
Pipeline(setup, parameters) ==
    [version |-> <<"2", ".", "1">>, jobs |-> <<>>, workflows |-> <<>>,
     executors |-> <<>>, parameters |-> parameters, setup |-> setup]

\* serialize(DictRef): the key, with no look at the registry
SerializeDictRef(x) == Str(x.key)

\* serialize(Equal), serialize(Not)
RECURSIVE SerializeCond(_)
SerializeCond(x) ==
    IF x.cls = "Equal"
    THEN Map(<<Entry(K.equal, List(<<Str(x.lhs), Str(x.rhs)>>))>>)
    ELSE Map(<<Entry(K.not, SerializeCond(x.cond))>>)

\* serialize(Run), serialize(Checkout)
SerializeStep(x) ==
    IF x.cls = "Checkout" THEN Str(<<"c", "h", "e", "c", "k", "o", "u", "t">>)
    ELSE Map(<<Entry(K.run,
                Map(Sparse(<<Entry(K.name, x.name), Entry(K.command, x.command),
                             Entry(K.shell, x.shell),
                             Entry(K.no_output_timeout, x.no_output_timeout)>>)))>>)

\* serialize(Parameter)
SerializeParameter(x) ==
    Map(Sparse(<<Entry(K.type, x.type), Entry(K.default, x.default)>>))

\* serialize(Executor): the fields but kind, then update() with the kind
SerializeExecutor(x) ==
    Map(<<Entry(K.resource_class, x.resource_class),
          Entry(K.docker, List(<<Map(<<Entry(K.image, x.kind.image)>>)>>))>>)

\* serialize(NoOpJob), serialize_base(StepsJob)
SerializeJob(x) ==
    IF x.cls = "NoOpJob"
    THEN Map(<<Entry(K.type, Str(<<"n", "o", "-", "o", "p">>))>>)
    ELSE Map(Sparse(<<
            Entry(K.executor, SerializeDictRef(x.executor)),
            Entry(K.steps, List([i \in 1..Len(x.steps) |-> SerializeStep(x.steps[i])])),
            Entry(K.parameters,
                  IF x.parameters = None THEN None
                  ELSE Map([i \in 1..Len(x.parameters.items) |-> Entry(x.parameters.items[i].k, SerializeParameter(x.parameters.items[i].v))])),
            Entry(K.environment, x.environment),
            Entry(K.shell, x.shell)>>))

\* serialize(v) for a value of the arguments dict: a DictRef gives its key,
\* a str or None is returned as it is
SerializeArgument(v) == IF "cls" \in DOMAIN v THEN SerializeDictRef(v) ELSE v

\* serialize(JobInstance): {job.key: data}, where data is the serialized
\* arguments dict with data["requires"] set to the required jobs' keys
SerializeJobInstance(x) ==
    Map(<<Entry(x.job.key,
                Map(DictSet([i \in 1..Len(x.arguments) |->
                                Entry(x.arguments[i].k,
                                      SerializeArgument(x.arguments[i].v))],
                            K.requires,
                            List([i \in 1..Len(x.requires) |->
                                    SerializeDictRef(x.requires[i])]))))>>)

\* serialize_base(Workflow)
SerializeWorkflow(x) ==
    Map(Sparse(<<
        Entry(K.jobs, List([i \in 1..Len(x.jobs) |-> SerializeJobInstance(x.jobs[i])])),
        Entry(K.when, IF x.when = None THEN None ELSE SerializeCond(x.when))>>))

\* serialize(Pipeline): serialize_base over the six fields
SerializePipeline(p) ==
    Map(<<Entry(K.version, Str(p.version)),
          Entry(K.jobs, Map([i \in 1..Len(p.jobs) |-> Entry(p.jobs[i].k, SerializeJob(p.jobs[i].v))])),
          Entry(K.workflows, Map([i \in 1..Len(p.workflows) |-> Entry(p.workflows[i].k, SerializeWorkflow(p.workflows[i].v))])),
          Entry(K.executors, Map([i \in 1..Len(p.executors) |-> Entry(p.executors[i].k, SerializeExecutor(p.executors[i].v))])),
          Entry(K.parameters, Map([i \in 1..Len(p.parameters) |-> Entry(p.parameters[i].k, SerializeParameter(p.parameters[i].v))])),
          Entry(K.setup, Bool(p.setup))>>)

\* deref written with dict.get: None for an absent key, nothing raised
DerefWithGet(p, ref) ==
    IF DictHas(p[ref.reg], ref.key)
    THEN [raised |-> FALSE, val |-> DictGet(p[ref.reg], ref.key)]
    ELSE [raised |-> FALSE, val |-> None]

\* DictRef.deref(): self._dict[self.key], a KeyError when the key is absent
Deref(p, ref) ==
    IF DictHas(p[ref.reg], ref.key)
    THEN [raised |-> FALSE, val |-> DictGet(p[ref.reg], ref.key)]
    ELSE [raised |-> TRUE, val |-> None]

\* DictRef(d, key, init): init, unless None, is stored under the key
Declare(p, reg, key, init) ==
    IF init = None THEN p ELSE [p EXCEPT ![reg] = DictSet(p[reg], key, init)]

\* ------------------------------------------- yaml.dump, json.dumps and back

\* The text of a document is a sequence of tokens.  json.dumps writes a dict
\* in its own order; yaml.dump (sort_keys defaults to True) writes every
\* mapping sorted by key and every str as string_presenter presents it.

Tok(kind, s, style) == [tok |-> kind, s |-> s, style |-> style]

\* the entries of a mapping sorted by key: sorted(mapping)
SortItems(items) ==
    LET Ranks(its) ==
            [i \in 1..Len(its) |->
                Cardinality({j \in 1..Len(its) : StrLess(its[j].k, its[i].k)})]
    IN  Only({[r \in 1..Len(its) |-> its[CHOOSE i \in 1..Len(its) : rank[i] = r - 1]]
              : its \in {items}, rank \in {Ranks(items)}})

\* string_presenter without the lstrip: the data is written as it is
YamlStrKept(kind, s) ==
    IF HasNewline(s) THEN Tok(kind, s, "|") ELSE Tok(kind, s, "")

\* string_presenter: a str with a newline is left-stripped and written as a
\* block literal, any other as a plain scalar
YamlStr(kind, s) ==
    IF HasNewline(s) THEN Tok(kind, Lstrip(s), "|") ELSE Tok(kind, s, "")

RECURSIVE Concat(_)
Concat(ss) == IF ss = <<>> THEN <<>> ELSE Head(ss) \o Concat(Tail(ss))

\* yaml.dump(d)
RECURSIVE YamlDump(_)
YamlDump(x) ==
    CASE x.t = "map" ->
            <<Tok("{", <<>>, "")>>
            \o Concat(Only({[i \in 1..Len(sorted) |->
                                <<YamlStr("key", sorted[i].k)>> \o YamlDump(sorted[i].v)]
                            : sorted \in {SortItems(x.items)}}))
            \o <<Tok("}", <<>>, "")>>
      [] x.t = "list" ->
            <<Tok("[", <<>>, "")>>
            \o Concat([i \in 1..Len(x.items) |-> YamlDump(x.items[i])])
            \o <<Tok("]", <<>>, "")>>
      [] x.t = "str" -> <<YamlStr("str", x.s)>>
      [] x.t = "none" -> <<Tok("null", <<>>, "")>>
      [] OTHER -> <<Tok("bool", <<>>, IF x.b THEN "true" ELSE "false")>>

\* json.dumps(d)
RECURSIVE JsonDumps(_)
JsonDumps(x) ==
    CASE x.t = "map" ->
            <<Tok("{", <<>>, "")>>
            \o Concat([i \in 1..Len(x.items) |->
                        <<Tok("key", x.items[i].k, "")>> \o JsonDumps(x.items[i].v)])
            \o <<Tok("}", <<>>, "")>>
      [] x.t = "list" ->
            <<Tok("[", <<>>, "")>>
            \o Concat([i \in 1..Len(x.items) |-> JsonDumps(x.items[i])])
            \o <<Tok("]", <<>>, "")>>
      [] x.t = "str" -> <<Tok("str", x.s, "")>>
      [] x.t = "none" -> <<Tok("null", <<>>, "")>>
      [] OTHER -> <<Tok("bool", <<>>, IF x.b THEN "true" ELSE "false")>>

\* parsing a text back (yaml.safe_load, json.loads): the value that starts
\* at position pos and the position after it; a mapping keeps the order of
\* the text
RECURSIVE ParseValue(_, _)
RECURSIVE ParseMembers(_, _, _)
RECURSIVE ParseElements(_, _, _)
ParseValue(toks, pos) ==
    CASE toks[pos].tok = "{" -> ParseMembers(toks, pos + 1, <<>>)
      [] toks[pos].tok = "[" -> ParseElements(toks, pos + 1, <<>>)
      [] toks[pos].tok = "str" -> [v |-> Str(toks[pos].s), next |-> pos + 1]
      [] toks[pos].tok = "null" -> [v |-> None, next |-> pos + 1]
      [] OTHER -> [v |-> Bool(toks[pos].style = "true"), next |-> pos + 1]

ParseMembers(toks, pos, acc) ==
    IF toks[pos].tok = "}" THEN [v |-> Map(acc), next |-> pos + 1]
    ELSE Only({ParseMembers(toks, r.next, DictSet(acc, toks[pos].s, r.v))
               : r \in {ParseValue(toks, pos + 1)}})

ParseElements(toks, pos, acc) ==
    IF toks[pos].tok = "]" THEN [v |-> List(acc), next |-> pos + 1]
    ELSE Only({ParseElements(toks, r.next, Append(acc, r.v))
               : r \in {ParseValue(toks, pos)}})

Parse(text) == Only({ParseValue(toks, 1).v : toks \in {text}})

\* Pipeline.dump_yaml()
DumpYaml(p) == Only({YamlDump(d) : d \in {SerializePipeline(p)}})

\* Pipeline.dump_json()
DumpJson(p) == Only({JsonDumps(d) : d \in {SerializePipeline(p)}})

\* the keys of the map under a top-level key of a parsed document
ParsedKeys(doc, key) == Keys(DictGet(doc.items, key).items)

\* ------------------------------------------- steps.py: the build pipeline

\* the arguments a step is bound to: a str, or a list of str
PyStr(s) == [py |-> "str", s |-> s]
PyList(xs) == [py |-> "list", xs |-> xs]

\* repr(a)
Repr(a) ==
    IF a.py = "str" THEN <<"'", a.s, "'">>
    ELSE <<"[">>
         \o Concat([i \in 1..Len(a.xs) |->
                      (IF i = 1 THEN <<>> ELSE <<", ">>) \o <<"'", a.xs[i], "'">>])
         \o <<"]">>

\* ",".join(repr(a) for a in args)
ArgStr(args) ==
    Concat([i \in 1..Len(args) |-> (IF i = 1 THEN <<>> ELSE <<",">>) \o Repr(args[i])])

\* CallableRunStep(name, shell, fn, args): a Run whose command imports fn and
\* calls it on the arguments
CallableRunStep(name, shell, fn, args) ==
    [cls |-> "Run", name |-> name,
     command |-> Str(<<"\n", "from circler.steps import ", fn, "\n", fn, "(">>
                     \o ArgStr(args) \o <<")", "\n">>),
     shell |-> IF shell = None THEN Str(<<"/tmp/python/bin/python">>) ELSE shell,
     no_output_timeout |-> None, fn |-> fn, args |-> args]

\* step.bind(*args)
Bind(step, args) == CallableRunStep(step.name, step.shell, step.fn, args)

\* @step(name="Realize derivation")
RealizeDrv == CallableRunStep(Str(<<"Realize derivation">>), None, "realize_drv", <<>>)

\* @step(name="Cache built derivation outputs")
CacheDrvOutputs ==
    CallableRunStep(Str(<<"Cache built derivation outputs">>), None,
                    "cache_drv_outputs", <<>>)

\* @step(name="Merge CI branch to master")
MergeCiBranch ==
    CallableRunStep(Str(<<"Merge CI branch to master">>), None, "merge_ci_branch", <<>>)

BinSh == Str(<<"/bin/sh">>)

\* checkout = Run(name="Clone and checkout repo", ...)
CheckoutRepo ==
    Run(Str(<<"Clone and checkout repo">>),
        Str(<<"\n", "mkdir -p ~/.ssh", "\n", "echo (host key) >> ~/.ssh/known_hosts", "\n",
              "git clone $CIRCLE_REPOSITORY_URL --revision=$CIRCLE_SHA1 --depth 1 .", "\n">>),
        BinSh, None)

\* nix_setup = Run(name="Setup nix", ...)
NixSetup ==
    Run(Str(<<"Setup nix">>),
        Str(<<"\n", "cat (heredoc) >/etc/nix/nix.conf", "\n", "(nix_conf)", "\n",
              "EOF", "\n">>),
        BinSh, None)

\* attic_setup(url, name, cache)
AtticSetup(url, name, cache) ==
    Run(Str(<<"Setup Attic">>),
        Str(<<"\n", "nix run nixpkgs#attic-client -- login ", name, " ", url,
              " ${ATTIC_TOKEN}", "\n",
              "nix run nixpkgs#attic-client -- use ", name, ":", cache, "\n">>),
        BinSh, None)

\* shell_setup(shell_path)
ShellSetup(shell_path) ==
    Run(Str(<<"Setup shell">>),
        Str(<<"\n", "nix-store --add-root /tmp/python --realize ", shell_path, "\n",
              " ", " ", " ", " ">>),
        BinSh, None)

\* setup_steps(shell_path)
SetupSteps(shell_path) ==
    <<NixSetup, AtticSetup("https://nix.leaningtech.com", "lt", "cheerp"),
      ShellSetup(shell_path)>>

DockerLarge == <<"d", "o", "c", "k", "e", "r", "_", "l", "a", "r", "g", "e">>
BuiltAll == <<"b", "u", "i", "l", "t", "-", "a", "l", "l">>
MergeToMaster ==
    <<"m", "e", "r", "g", "e", "-", "t", "o", "-", "m", "a", "s", "t", "e", "r">>
BuildAll == <<"b", "u", "i", "l", "d", "-", "a", "l", "l">>

\* what a function left behind: whether it raised, and otherwise its values
Raised == [raised |-> TRUE]

\* generate_build_job that makes the reference without storing the job:
\* p.job(name) in place of p.job(name, StepsJob(...))
GenerateBuildJobUndeclared(p, executor, drv, env) ==
    IF ~DictHas(env, "SHELL_PATH") THEN Raised
    ELSE [raised |-> FALSE, p |-> p,
          inst |-> JobInstance(DictRef("jobs", GetSafeName(drv.name)), <<>>, <<>>)]

\* generate_build_job(p, executor, drv): the job declared under the safe name
\* of the unit and the JobInstance of it; env["SHELL_PATH"] must be there
GenerateBuildJob(p, executor, drv, env) ==
    IF ~DictHas(env, "SHELL_PATH") THEN Raised
    ELSE LET shell_path == DictGet(env, "SHELL_PATH")
             key == GetSafeName(drv.name)
             job == StepsJob(executor,
                             SetupSteps(shell_path)
                             \o <<Bind(RealizeDrv, <<PyStr(drv.drv)>>),
                                  Bind(CacheDrvOutputs,
                                       <<PyList([i \in 1..Len(drv.outputs) |->
                                                   drv.outputs[i].v])>>)>>,
                             None, None, Str(<<shell_path>>))
         IN  [raised |-> FALSE, p |-> Declare(p, "jobs", key, job),
              inst |-> JobInstance(DictRef("jobs", key), <<>>, <<>>)]

\* for drv in drvs.values(): jobs[get_safe_name(drv.name)] = generate_build_job(...)
RECURSIVE BuildJobs(_, _, _, _, _)
BuildJobs(h, todo, st, docker, env) ==
    IF st.raised \/ todo = <<>> THEN st
    ELSE LET drv == h[Head(todo)]
         IN  BuildJobs(h, Tail(todo),
                       Only({IF r.raised THEN Raised
                             ELSE [raised |-> FALSE, p |-> r.p,
                                   jobs |-> DictSet(st.jobs, GetSafeName(drv.name), r.inst)]
                             : r \in {GenerateBuildJob(st.p, docker, drv, env)}}),
                       docker, env)

\* for name in jobs: for dep in drvs[name].deps: a KeyError of drvs[name] or
\* of jobs[dep.name]
WireRaises(h, drvs, jobs) ==
    \E i \in 1..Len(jobs) :
        \/ ~DictHas(drvs, jobs[i].k)
        \/ \E dep \in SeqSet(h[DictGet(drvs, jobs[i].k)].deps) : ~DictHas(jobs, h[dep].name)

\* ... jobs[name].requires.append(jobs[dep.name].job)
Wire(h, drvs, jobs) ==
    [i \in 1..Len(jobs) |->
        LET deps == h[DictGet(drvs, jobs[i].k)].deps
        IN  [k |-> jobs[i].k,
             v |-> [jobs[i].v EXCEPT !.requires =
                        @ \o [m \in 1..Len(deps) |-> DictGet(jobs, h[deps[m]].name).job]]]]

\* the merge job appended with an empty requires list
WithMergeUnwired(p, jobs, docker, env) ==
    IF ~DictHas(env, "BRANCH_TO_MERGE") THEN [raised |-> FALSE, p |-> p, jobs |-> jobs]
    ELSE IF ~DictHas(env, "SHELL_PATH") THEN Raised
    ELSE LET ci_branch == DictGet(env, "BRANCH_TO_MERGE")
             job == StepsJob(docker,
                             <<CheckoutRepo, Bind(MergeCiBranch, <<PyStr(ci_branch)>>)>>,
                             None, None, Str(<<DictGet(env, "SHELL_PATH")>>))
         IN  [raised |-> FALSE, p |-> Declare(p, "jobs", MergeToMaster, job),
              jobs |-> DictSet(jobs, MergeToMaster,
                               JobInstance(DictRef("jobs", MergeToMaster), <<>>, <<>>))]

\* the merge job of the branch: "merge-to-master", after the barrier
WithMerge(p, jobs, docker, env) ==
    IF ~DictHas(env, "BRANCH_TO_MERGE") THEN [raised |-> FALSE, p |-> p, jobs |-> jobs]
    ELSE IF ~DictHas(env, "SHELL_PATH") THEN Raised
    ELSE LET ci_branch == DictGet(env, "BRANCH_TO_MERGE")
             job == StepsJob(docker,
                             <<CheckoutRepo, Bind(MergeCiBranch, <<PyStr(ci_branch)>>)>>,
                             None, None, Str(<<DictGet(env, "SHELL_PATH")>>))
         IN  [raised |-> FALSE, p |-> Declare(p, "jobs", MergeToMaster, job),
              jobs |-> DictSet(jobs, MergeToMaster,
                               JobInstance(DictRef("jobs", MergeToMaster), <<>>,
                                           <<DictGet(jobs, BuiltAll).job>>))]

\* generate_build_pipeline(drvs): the Pipeline returned, or that it raised;
\* wired is the dict of job instances as prune_deps receives it
GenerateBuildPipeline(h, drvs, env) ==
    LET docker == DictRef("executors", DockerLarge)
        p0 == Declare(Pipeline(FALSE, <<>>), "executors", DockerLarge, LargeDocker)
        Finish(st) ==
            IF st.raised \/ WireRaises(h, drvs, st.jobs) THEN Raised
            ELSE LET jobs1 == Wire(h, drvs, st.jobs)
                     p1 == Declare(st.p, "jobs", BuiltAll, NoOpJob)
                     wired == DictSet(jobs1, BuiltAll,
                                      JobInstance(DictRef("jobs", BuiltAll), <<>>,
                                                  [i \in 1..Len(jobs1) |-> jobs1[i].v.job]))
                 IN  IF PruneDepsRaises(wired) THEN Raised
                     ELSE Only({IF m.raised THEN Raised
                                ELSE [raised |-> FALSE, wired |-> w,
                                      p |-> Declare(m.p, "workflows", BuildAll,
                                                    Workflow([i \in 1..Len(m.jobs) |->
                                                                 m.jobs[i].v], None))]
                                : w \in {wired},
                                  m \in {WithMerge(p1, PruneDeps(wired), docker, env)}})
    IN  Only({Finish(st) :
              st \in {BuildJobs(h, [i \in 1..Len(drvs) |-> drvs[i].v],
                                [raised |-> FALSE, p |-> p0, jobs |-> <<>>], docker, env)}})

\* ------------------------------------------------ exec.py: the kept env

\* env at import: what /tmp/env.pickle holds, or os.environ.copy() when the
\* file is not there (an export always leaves a key, so an empty pickle
\* stands for no file)
LoadEnv(pickle, osenv) == IF pickle = <<>> THEN osenv ELSE pickle

\* export that pickles the exported key alone
ExportAlone(env, key, val) == <<Entry(key, val)>>

\* export(key, val): env[key] = val, and the whole env is pickled
Export(env, key, val) == DictSet(env, key, val)

\* update_pin_and_commit(): BRANCH_TO_MERGE is exported when the trigger is
\* this repository, or the main or master branch of another, and no
\* CIRCLER_PARAM_*_branch is set; git is what the git and npins commands do:
\* all succeed, one fails before the export, or the final push fails
UpdatePinAndCommit(env, git) ==
    IF \E k \in {"CIRCLER_TRIGGER_REPO_NAME", "CIRCLER_TRIGGER_BRANCH",
                 "CIRCLER_TRIGGER_CHECKOUT_SHA", "CIRCLE_BUILD_NUM",
                 "CIRCLE_PROJECT_REPONAME"} : ~DictHas(env, k)
    THEN [raised |-> TRUE, exported |-> FALSE, env |-> env]
    ELSE LET repo == DictGet(env, "CIRCLER_TRIGGER_REPO_NAME")
             branch == DictGet(env, "CIRCLER_TRIGGER_BRANCH")
             ci_repo == DictGet(env, "CIRCLE_PROJECT_REPONAME")
             ci_branch == ci_repo \o "-" \o DictGet(env, "CIRCLE_BUILD_NUM")
             \* the keys of env that start with CIRCLER_PARAM_ and end with _branch
             branchParams == {"CIRCLER_PARAM_cheerp_compiler_branch"} \cap KeySet(env)
             do_merge == /\ (repo # ci_repo => branch \in {"main", "master"})
                         /\ \A k \in branchParams : DictGet(env, k) = ""
         IN  IF git = "fails before the export"
             THEN [raised |-> TRUE, exported |-> FALSE, env |-> env]
             ELSE [raised |-> git = "push fails", exported |-> do_merge,
                   env |-> IF do_merge THEN Export(env, "BRANCH_TO_MERGE", ci_branch)
                           ELSE env]

\* generate_main_pipeline with a fallback: when the build raises, an empty
\* Pipeline is printed and exported in its place
GenerateMainPipelineFallback(result, reqs, env) ==
    IF ~DictHas(env, "EVAL_JOBS")
    THEN [raised |-> TRUE, heap |-> <<>>, drvs |-> <<>>, wired |-> <<>>,
          p |-> None, printed |-> <<>>, env |-> env]
    ELSE
    Only({Only({
          IF b.raised
          THEN [raised |-> FALSE, heap |-> l.heap, drvs |-> l.drvs, wired |-> <<>>,
                p |-> Pipeline(FALSE, <<>>),
                printed |-> <<DumpYaml(Pipeline(FALSE, <<>>))>>,
                env |-> DictSet(env, "NEXT_PIPELINE", DumpJson(Pipeline(FALSE, <<>>)))]
          ELSE [raised |-> FALSE, heap |-> l.heap, drvs |-> l.drvs, wired |-> b.wired,
                p |-> b.p, printed |-> <<DumpYaml(b.p)>>,
                env |-> DictSet(env, "NEXT_PIPELINE", DumpJson(b.p))]
          : b \in {GenerateBuildPipeline(l.heap, l.drvs, env)}})
          : l \in {LoadDerivations(DictGet(env, "EVAL_JOBS"), result, reqs)}})

\* generate_main_pipeline(): load the units, build the Pipeline, print its
\* YAML text and export its JSON text as NEXT_PIPELINE; an exception of the
\* build, or the KeyError of env["EVAL_JOBS"], leaves before anything is
\* printed or exported
GenerateMainPipeline(result, reqs, env) ==
    IF ~DictHas(env, "EVAL_JOBS")
    THEN [raised |-> TRUE, heap |-> <<>>, drvs |-> <<>>, wired |-> <<>>,
          p |-> None, printed |-> <<>>, env |-> env]
    ELSE
    Only({Only({
          IF b.raised
          THEN [raised |-> TRUE, heap |-> l.heap, drvs |-> l.drvs, wired |-> <<>>,
                p |-> None, printed |-> <<>>, env |-> env]
          ELSE [raised |-> FALSE, heap |-> l.heap, drvs |-> l.drvs, wired |-> b.wired,
                p |-> b.p, printed |-> <<DumpYaml(b.p)>>,
                env |-> DictSet(env, "NEXT_PIPELINE", DumpJson(b.p))]
          : b \in {GenerateBuildPipeline(l.heap, l.drvs, env)}})
          : l \in {LoadDerivations(DictGet(env, "EVAL_JOBS"), result, reqs)}})

\* what the continuation endpoint can do with a request: answer with a 2xx
\* status, answer with another status, or not answer (requests.post raises)
Responses == {"2xx", "non-2xx", "transport error"}

\* continuation() posting again when the answer is not 2xx
ContinuationRetrying(env, osenv, response) ==
    IF ~DictHas(env, "NEXT_PIPELINE") \/ ~DictHas(osenv, "CIRCLE_CONTINUATION_KEY")
    THEN [raised |-> TRUE, posts |-> <<>>, printed |-> <<>>]
    ELSE LET payload ==
                 <<Entry("continuation-key", DictGet(osenv, "CIRCLE_CONTINUATION_KEY")),
                   Entry("configuration", DictGet(env, "NEXT_PIPELINE"))>>
         IN  CASE response = "transport error" ->
                      [raised |-> TRUE, posts |-> <<payload>>, printed |-> <<>>]
               [] response = "non-2xx" ->
                      [raised |-> FALSE, posts |-> <<payload, payload>>,
                       printed |-> <<[text |-> response]>>]
               [] OTHER ->
                      [raised |-> FALSE, posts |-> <<payload>>,
                       printed |-> <<[text |-> response]>>]

\* continuation(): env["NEXT_PIPELINE"] and os.environ["CIRCLE_CONTINUATION_KEY"]
\* (a KeyError when absent), one requests.post of the payload, then
\* print(response.text) whatever the status; an exception of requests.post
\* is not caught
Continuation(env, osenv, response) ==
    IF ~DictHas(env, "NEXT_PIPELINE") \/ ~DictHas(osenv, "CIRCLE_CONTINUATION_KEY")
    THEN [raised |-> TRUE, posts |-> <<>>, printed |-> <<>>]
    ELSE LET payload ==
                 <<Entry("continuation-key", DictGet(osenv, "CIRCLE_CONTINUATION_KEY")),
                   Entry("configuration", DictGet(env, "NEXT_PIPELINE"))>>
         IN  IF response = "transport error"
             THEN [raised |-> TRUE, posts |-> <<payload>>, printed |-> <<>>]
             ELSE [raised |-> FALSE, posts |-> <<payload>>,
                   printed |-> <<[text |-> response]>>]

\* ------------------------------------------------------------- variables

VARIABLES
    redPc,        \* reducers: "idle", "input", "pg1", "pg2", "pd1", "pd2"
    redHeap,      \* reducers: the Derivation objects
    redIn,        \* reducers: the graph given to prune_graph
    redOut,       \* reducers: prune_graph(redIn)
    redOut2,      \* reducers: prune_graph(redOut)
    redJobsIn,    \* reducers: the job instances given to prune_deps
    redJobsOut,   \* reducers: prune_deps(redJobsIn)
    redJobsOut2,  \* reducers: prune_deps(redJobsOut)
    regP,         \* registry: the Pipeline whose registries are declared into
    regRefs,      \* registry: the DictRefs handed out so far
    regLast,      \* registry: the last call and what it returned or raised
    regOps,       \* registry: how many DictRefs were constructed
    regDumped,    \* registry: whether the document has been serialized
    regText,      \* registry: the text the last call returned, if it was a dump
    pc,           \* pipeline: "idle", "start", "loaded", "compiled", "failed";
                  \* setup job: the step to run next ("cache_shell",
                  \* "update_pin_and_commit", "nix_eval_jobs",
                  \* "cache_eval_jobs", "setup" for generate_main_pipeline,
                  \* "generated" for continuation), "continued", or the
                  \* step that failed ("... failed")
    evalJobs,     \* pipeline: the items the evaluator listed (EVAL_JOBS)
    pathInfo,     \* pipeline: what the cache answers about the output paths
    requisites,   \* pipeline: for each drv path, what get_all_deps prints
    environ,      \* pipeline: env; setup job: what /tmp/env.pickle holds
    heap,         \* pipeline: the Derivation objects
    drvs,         \* pipeline: the working set, name -> Derivation
    wired,        \* pipeline: the job instances as prune_deps received them
    pipeline,     \* pipeline: the Pipeline generate_build_pipeline returned
    osEnviron,    \* setup job: os.environ
    stdout,       \* setup job: what the steps printed, in order
    posts,        \* setup job: the payloads posted to the continuation endpoint
    response      \* setup job: what the endpoint did with the last post

redVars == <<redPc, redHeap, redIn, redOut, redOut2, redJobsIn, redJobsOut, redJobsOut2>>

regVars == <<regP, regRefs, regLast, regOps, regDumped, regText>>

inVars == <<evalJobs, pathInfo, requisites, environ>>

subVars == <<osEnviron, stdout, posts, response>>

pipeVars == <<pc, inVars, heap, drvs, wired, pipeline, subVars>>

vars == <<redVars, regVars, pipeVars>>

PipeIdle ==
    /\ pc = "idle"
    /\ evalJobs = <<>>
    /\ pathInfo = <<>>
    /\ requisites = <<>>
    /\ environ = <<>>
    /\ heap = <<>>
    /\ drvs = <<>>
    /\ wired = <<>>
    /\ pipeline = None
    /\ osEnviron = <<>>
    /\ stdout = <<>>
    /\ posts = <<>>
    /\ response = "none"

RedIdle ==
    /\ redPc = "idle"
    /\ redHeap = <<>>
    /\ redIn = <<>>
    /\ redOut = <<>>
    /\ redOut2 = <<>>
    /\ redJobsIn = <<>>
    /\ redJobsOut = <<>>
    /\ redJobsOut2 = <<>>

\* ------------------------------------------ the registries of one Pipeline

A_ == <<"a">>
B_ == <<"b">>

\* the keys entities are declared under
RegKeys == {B_, A_}

\* the entities a caller declares in each registry
RegValues(reg) ==
    CASE reg = "jobs" ->
            {NoOpJob,
             StepsJob(DictRef("executors", A_), <<Checkout>>, None, None, None),
             StepsJob(DictRef("executors", A_),
                      <<Run(Str(<<"n">>), Str(<<"\n", " ", "x", "\n", "y", "\n">>),
                            None, Str(<<"2", "0", "m">>))>>,
                      None, Map(<<Entry(<<"E">>, Str(<<"1">>))>>), BinSh)}
      [] reg = "workflows" ->
            {Workflow(<<JobInstance(DictRef("jobs", B_), <<>>, <<DictRef("jobs", A_)>>)>>,
                      None),
             Workflow(<<JobInstance(DictRef("jobs", A_),
                                    <<Entry(<<"x">>, DictRef("executors", A_)),
                                      Entry(K.requires, Str(<<"x">>))>>,
                                    <<DictRef("jobs", B_)>>),
                        JobInstance(DictRef("jobs", B_),
                                    <<Entry(<<"x">>, Str(<<"1">>)), Entry(<<"y">>, None)>>,
                                    <<DictRef("jobs", B_), DictRef("jobs", A_)>>)>>,
                      Equal(<<"x">>, <<"y">>))}
      [] reg = "executors" -> {LargeDocker}
      [] OTHER -> {Parameter(Str(<<"string">>), Str(<<>>)),
                   Parameter(Str(<<"string">>), None)}

\* a DictRef object handed to the caller: the reference, and whether it was
\* constructed with init=None
Handle(reg, key, init) == [ref |-> DictRef(reg, key), fwd |-> (init = None)]

NoRef == [ref |-> DictRef("none", <<>>), fwd |-> FALSE]

Call(op, ref, raised, val) == [op |-> op, ref |-> ref, raised |-> raised, val |-> val]

RegIdle ==
    /\ regP = Pipeline(FALSE, <<>>)
    /\ regRefs = {}
    /\ regLast = Call("idle", NoRef, FALSE, None)
    /\ regOps = 0
    /\ regDumped = FALSE
    /\ regText = <<>>

\* p = Pipeline()
RegInit ==
    /\ regP = Pipeline(FALSE, <<>>)
    /\ regRefs = {}
    /\ regLast = Call("new", NoRef, FALSE, None)
    /\ regOps = 0
    /\ regDumped = FALSE
    /\ regText = <<>>
    /\ RedIdle
    /\ PipeIdle

\* DictRef(registry, key, init) for a caller: the reference is handed out
Construct(reg, key, init) ==
    /\ regOps < MaxRegOps
    /\ regP' = Declare(regP, reg, key, init)
    /\ regRefs' = regRefs \cup {Handle(reg, key, init)}
    /\ regLast' = Call("declare", Handle(reg, key, init), FALSE, init)
    /\ regOps' = regOps + 1
    /\ regText' = <<>>
    /\ UNCHANGED regDumped
    /\ UNCHANGED <<redVars, pipeVars>>

\* p.job(name, j)
PipelineJob == \E k \in RegKeys : \E j \in RegValues("jobs") : Construct("jobs", k, j)

\* p.workflow(name, w)
PipelineWorkflow ==
    \E k \in RegKeys : \E w \in RegValues("workflows") : Construct("workflows", k, w)

\* p.executor(name, e)
PipelineExecutor ==
    \E k \in RegKeys : \E e \in RegValues("executors") : Construct("executors", k, e)

\* p.parameter(name, x)
PipelineParameter ==
    \E k \in RegKeys : \E x \in RegValues("parameters") : Construct("parameters", k, x)

\* DictRef(p.jobs, key, None): a reference made before its target is stored
ForwardRef == \E k \in RegKeys : Construct("jobs", k, None)

\* ref.deref()
CallDeref ==
    \E h \in regRefs :
        /\ LET r == Deref(regP, h.ref)
           IN  regLast' = Call("deref", h, r.raised, r.val)
        /\ regText' = <<>>
        /\ UNCHANGED <<regP, regRefs, regOps, regDumped>>
        /\ UNCHANGED <<redVars, pipeVars>>

\* serialize(ref)
CallSerialize ==
    \E h \in regRefs :
        /\ regLast' = Call("serialize", h, FALSE, SerializeDictRef(h.ref))
        /\ regText' = <<>>
        /\ UNCHANGED <<regP, regRefs, regOps, regDumped>>
        /\ UNCHANGED <<redVars, pipeVars>>

\* yaml.safe_load(p.dump_yaml())
CallDumpYaml ==
    /\ regText' = DumpYaml(regP)
    /\ regLast' = Call("dump_yaml", NoRef, FALSE, Parse(regText'))
    /\ regDumped' = TRUE
    /\ UNCHANGED <<regP, regRefs, regOps>>
    /\ UNCHANGED <<redVars, pipeVars>>

\* json.loads(p.dump_json())
CallDumpJson ==
    /\ regText' = DumpJson(regP)
    /\ regLast' = Call("dump_json", NoRef, FALSE, Parse(regText'))
    /\ regDumped' = TRUE
    /\ UNCHANGED <<regP, regRefs, regOps>>
    /\ UNCHANGED <<redVars, pipeVars>>

RegNext ==
    \/ PipelineJob
    \/ PipelineWorkflow
    \/ PipelineExecutor
    \/ PipelineParameter
    \/ ForwardRef
    \/ CallDeref
    \/ CallSerialize
    \/ CallDumpYaml
    \/ CallDumpJson

SpecRegistry == RegInit /\ [][RegNext]_vars

\* ------------------------------------------- the reducers on arbitrary DAGs

NodeNames == << <<"a">>, <<"b">>, <<"c">>, <<"d">>, <<"e">> >>

\* the dep lists of every DAG on the nodes listed in order: a node depends,
\* in any order, on nodes listed before it; every DAG arises from some order
RECURSIVE DagDeps(_, _)
DagDeps(order, p) ==
    IF p = 0 THEN {<<>>}
    ELSE {f @@ (order[p] :> l) :
            f \in DagDeps(order, p - 1),
            l \in ListsOver({order[q] : q \in 1..(p - 1)})}

\* every choice of dep lists (duplicate-free, in any order) making 1..n a DAG
DepLists(n) ==
    UNION {DagDeps(order, n) : order \in {s \in ListsOver(1..n) : Len(s) = n}}

\* the Derivation objects and the dict of a graph on nodes 1..n
HeapOf(n, deps) ==
    [i \in 1..n |-> [name |-> NodeNames[i], drv |-> DrvPaths[i],
                     outputs |-> << [k |-> <<"o", "u", "t">>, v |-> i] >>,
                     deps |-> deps[i]]]

GraphOf(n) == [i \in 1..n |-> [k |-> NodeNames[i], v |-> i]]

\* the job instances of the same graph
JobsOf(n, deps) ==
    [i \in 1..n |->
        [k |-> NodeNames[i],
         v |-> JobInstance(DictRef("jobs", NodeNames[i]), <<>>,
                           [m \in 1..Len(deps[i]) |-> DictRef("jobs", NodeNames[deps[i][m]])])]]

RedInit ==
    \E n \in 0..MaxNodes : \E deps \in DepLists(n) :
        /\ RegIdle
        /\ PipeIdle
        /\ redPc = "input"
        /\ redHeap = HeapOf(n, deps)
        /\ redIn = GraphOf(n)
        /\ redOut = <<>>
        /\ redOut2 = <<>>
        /\ redJobsIn = JobsOf(n, deps)
        /\ redJobsOut = <<>>
        /\ redJobsOut2 = <<>>

\* pruned = prune_graph(g)
RunPruneGraph ==
    /\ redPc = "input"
    /\ LET r == PruneGraph(redHeap, redIn)
       IN  /\ redHeap' = r.heap
           /\ redOut' = r.g
    /\ redPc' = "pg1"
    /\ UNCHANGED <<redIn, redOut2, redJobsIn, redJobsOut, redJobsOut2>>
    /\ UNCHANGED <<regVars, pipeVars>>

\* prune_graph(pruned)
RunPruneGraphAgain ==
    /\ redPc = "pg1"
    /\ LET r == PruneGraph(redHeap, redOut)
       IN  /\ redHeap' = r.heap
           /\ redOut2' = r.g
    /\ redPc' = "pg2"
    /\ UNCHANGED <<redIn, redOut, redJobsIn, redJobsOut, redJobsOut2>>
    /\ UNCHANGED <<regVars, pipeVars>>

\* jobs = prune_deps(jobs)
RunPruneDeps ==
    /\ redPc = "pg2"
    /\ ~PruneDepsRaises(redJobsIn)
    /\ redJobsOut' = PruneDeps(redJobsIn)
    /\ redPc' = "pd1"
    /\ UNCHANGED <<redHeap, redIn, redOut, redOut2, redJobsIn, redJobsOut2>>
    /\ UNCHANGED <<regVars, pipeVars>>

\* prune_deps(prune_deps(jobs))
RunPruneDepsAgain ==
    /\ redPc = "pd1"
    /\ ~PruneDepsRaises(redJobsOut)
    /\ redJobsOut2' = PruneDeps(redJobsOut)
    /\ redPc' = "pd2"
    /\ UNCHANGED <<redHeap, redIn, redOut, redOut2, redJobsIn, redJobsOut>>
    /\ UNCHANGED <<regVars, pipeVars>>

RedNext ==
    \/ RunPruneGraph
    \/ RunPruneGraphAgain
    \/ RunPruneDeps
    \/ RunPruneDepsAgain

SpecReduce == RedInit /\ [][RedNext]_vars

\* ------------------------------------ from the evaluator's list to the document

\* the names the evaluator gives units: plain names, a dotted name and the
\* name its dots turn into, and the name of the barrier
UnitNames ==
    {<<"a">>, <<"d">>, <<"b", ".", "c">>, <<"b", "_", "c">>, BuiltAll}

OutNames == << <<"o", "u", "t">>, <<"d", "e", "v">> >>

OutPaths ==
    << <<"/nix/store/1-out", "/nix/store/1-dev">>,
       <<"/nix/store/2-out", "/nix/store/2-dev">>,
       <<"/nix/store/3-out", "/nix/store/3-dev">>,
       <<"/nix/store/4-out", "/nix/store/4-dev">> >>

\* a store path in every closure that is no unit
SourcePath == "/nix/store/0-source"

RECURSIVE Sum(_, _)
Sum(f, n) == IF n = 0 THEN 0 ELSE f[n] + Sum(f, n - 1)

\* the item the evaluator prints for unit i
Item(name, i, nout) ==
    [attr |-> name, drvPath |-> DrvPaths[i],
     outputs |-> [o \in 1..nout |-> [k |-> OutNames[o], v |-> OutPaths[i][o]]],
     meta |-> [disabled |-> FALSE]]

\* nix path-info --json: an object with the valid paths (valid[q]); the
\* paths that are not in the cache are null in it, or left out of it
PathInfoOf(n, nouts, valid, invalidAs) ==
    LET paths == Concat([i \in 1..n |-> [o \in 1..nouts[i] |-> OutPaths[i][o]]])
        told == SelectSeq(paths, LAMBDA q : valid[q] \/ invalidAs = "null")
    IN  [m \in 1..Len(told) |->
            [k |-> told[m], v |-> IF valid[told[m]] THEN "info" ELSE "null"]]

\* nix-store --query --requisites: the closure of a drv, itself included
RequisitesOf(n, deps) ==
    [i \in 1..n |->
        [k |-> DrvPaths[i],
         v |-> <<SourcePath>> \o [m \in 1..Len(deps[i]) |-> DrvPaths[deps[i][m]]]
               \o <<DrvPaths[i]>>]]

\* the dep lists of the DAGs that are closures
ClosedDepLists(n) ==
    {deps \in DepLists(n) :
        LET E == UNION {{<<i, deps[i][m]>> : m \in 1..Len(deps[i])} : i \in 1..n}
        IN  Closure(E) = E}

Environs ==
    {<< [k |-> "SHELL_PATH", v |-> "/nix/store/0-python/bin/python"] >>,
     << [k |-> "SHELL_PATH", v |-> "/nix/store/0-python/bin/python"],
        [k |-> "BRANCH_TO_MERGE", v |-> "repo-1"] >>}

Init ==
    \E n \in 0..MaxUnits :
    \E names \in {s \in ListsOver(UnitNames) : Len(s) = n} :
    \E nouts \in {f \in [1..n -> 1..2] : Sum(f, n) <= MaxPaths} :
    \E valid \in [UNION {{OutPaths[i][o] : o \in 1..nouts[i]} : i \in 1..n} -> BOOLEAN] :
    \E invalidAs \in {"null", "missing"} :
    \E deps \in ClosedDepLists(n) :
    \E e \in Environs :
        /\ RedIdle
        /\ RegIdle
        /\ pc = "start"
        /\ evalJobs = [i \in 1..n |-> Item(names[i], i, nouts[i])]
        /\ pathInfo = PathInfoOf(n, nouts, valid, invalidAs)
        /\ requisites = RequisitesOf(n, deps)
        /\ environ = e
        /\ heap = <<>>
        /\ drvs = <<>>
        /\ wired = <<>>
        /\ pipeline = None
        /\ osEnviron = <<>>
        /\ stdout = <<>>
        /\ posts = <<>>
        /\ response = "none"

\* drvs = load_derivations(items)
RunLoadDerivations ==
    /\ pc = "start"
    /\ LET r == LoadDerivations(evalJobs, pathInfo, requisites)
       IN  /\ heap' = r.heap
           /\ drvs' = r.drvs
    /\ pc' = "loaded"
    /\ UNCHANGED <<inVars, wired, pipeline, subVars>>
    /\ UNCHANGED <<redVars, regVars>>

\* p = generate_build_pipeline(drvs)
RunGenerateBuildPipeline ==
    /\ pc = "loaded"
    /\ \E r \in {GenerateBuildPipeline(heap, drvs, environ)} :
          IF r.raised
          THEN pc' = "failed" /\ UNCHANGED <<wired, pipeline>>
          ELSE pc' = "compiled" /\ wired' = r.wired /\ pipeline' = r.p
    /\ UNCHANGED <<inVars, heap, drvs, subVars>>
    /\ UNCHANGED <<redVars, regVars>>

Next ==
    \/ RunLoadDerivations
    \/ RunGenerateBuildPipeline

Spec == Init /\ [][Next]_vars

\* ------------------------------------------- the setup job: specification
\* The python steps of the setup job (cheerp.run), after the shell steps of
\* bootstrap_steps have put the interpreter at /tmp/python: cache_shell,
\* update_pin_and_commit, nix_eval_jobs, cache_eval_jobs,
\* generate_main_pipeline, continuation.  Each step is a process of its own
\* that loads env when it imports exec.  A step that raises fails the job,
\* and the steps after it are not run.

\* the names of the units listed to the setup job: plain, and two that
\* get_safe_name maps to the same key
MainUnitNames == {<<"a">>, <<"b", ".", "c">>, <<"b", "_", "c">>}

\* os.environ of the steps: the trigger of the pipeline (this repository; a
\* branch of another repository; this repository with a branch parameter),
\* the build, and the continuation key or none
OsEnvirons ==
    LET Trigger(repo, branch, param) ==
            <<Entry("CIRCLER_TRIGGER_REPO_NAME", repo),
              Entry("CIRCLER_TRIGGER_BRANCH", branch),
              Entry("CIRCLER_TRIGGER_CHECKOUT_SHA", "0abc"),
              Entry("CIRCLER_PARAM_cheerp_compiler_branch", param),
              Entry("CIRCLE_BUILD_NUM", "1"),
              Entry("CIRCLE_PROJECT_REPONAME", "repo")>>
    IN  {t \o c :
            t \in {Trigger("repo", "main", ""), Trigger("cheerp", "dev", ""),
                   Trigger("repo", "main", "dev")},
            c \in {<<>>, <<Entry("CIRCLE_CONTINUATION_KEY", "key-1")>>}}

MainInit ==
    \E n \in 0..MaxMainUnits :
    \E names \in {s \in ListsOver(MainUnitNames) : Len(s) = n} :
    \E valid \in [{OutPaths[i][1] : i \in 1..n} -> BOOLEAN] :
    \E deps \in ClosedDepLists(n) :
    \E off \in {0, 1} \cap (0..n) :
    \E o \in OsEnvirons :
        /\ RedIdle
        /\ RegIdle
        /\ pc = "cache_shell"
        /\ evalJobs = [i \in 1..n |->
                          [Item(names[i], i, 1) EXCEPT !.meta.disabled = (i = off)]]
        /\ pathInfo = PathInfoOf(n, [i \in 1..n |-> 1], valid, "missing")
        /\ requisites = RequisitesOf(n, deps)
        /\ environ = <<>>
        /\ heap = <<>>
        /\ drvs = <<>>
        /\ wired = <<>>
        /\ pipeline = None
        /\ osEnviron = o
        /\ stdout = <<>>
        /\ posts = <<>>
        /\ response = "none"

\* the step "Cache python shell": sh.attic.push, then
\* export("SHELL_PATH", os.readlink("/tmp/python") + "/bin/python")
RunCacheShell ==
    /\ pc = "cache_shell"
    /\ \E pushed \in BOOLEAN :
          IF pushed
          THEN /\ pc' = "update_pin_and_commit"
               /\ environ' = Export(LoadEnv(environ, osEnviron), "SHELL_PATH",
                                    "/nix/store/0-python" \o "/bin/python")
          ELSE /\ pc' = "cache_shell failed"
               /\ environ' = environ
    /\ UNCHANGED <<evalJobs, pathInfo, requisites, heap, drvs, wired, pipeline, subVars>>
    /\ UNCHANGED <<redVars, regVars>>

\* the step "Update pin of trigger repo and commit"
RunUpdatePinAndCommit ==
    /\ pc = "update_pin_and_commit"
    /\ \E git \in {"ok", "fails before the export", "push fails"} :
       \E r \in {UpdatePinAndCommit(LoadEnv(environ, osEnviron), git)} :
          /\ pc' = IF r.raised THEN "update_pin_and_commit failed" ELSE "nix_eval_jobs"
          /\ environ' = IF r.exported THEN r.env ELSE environ
    /\ UNCHANGED <<evalJobs, pathInfo, requisites, heap, drvs, wired, pipeline, subVars>>
    /\ UNCHANGED <<redVars, regVars>>

\* the step "Eval nix expression": evalJobs is what the lines printed by
\* nix-eval-jobs decode to; of no line, out.strip().split("\n") is [""] and
\* json.loads("") raises
RunNixEvalJobs ==
    /\ pc = "nix_eval_jobs"
    /\ \E evaluated \in BOOLEAN :
          IF evaluated /\ evalJobs # <<>>
          THEN /\ pc' = "cache_eval_jobs"
               /\ environ' = Export(LoadEnv(environ, osEnviron), "EVAL_JOBS", evalJobs)
          ELSE /\ pc' = "nix_eval_jobs failed"
               /\ environ' = environ
    /\ UNCHANGED <<evalJobs, pathInfo, requisites, heap, drvs, wired, pipeline, subVars>>
    /\ UNCHANGED <<redVars, regVars>>

\* the step "Cache eval jobs": env["EVAL_JOBS"], then sh.attic.push for the
\* drvPath of each item; nothing is exported
RunCacheEvalJobs ==
    /\ pc = "cache_eval_jobs"
    /\ \E pushed \in BOOLEAN :
          pc' = IF DictHas(LoadEnv(environ, osEnviron), "EVAL_JOBS") /\ pushed
                THEN "setup" ELSE "cache_eval_jobs failed"
    /\ UNCHANGED <<inVars, heap, drvs, wired, pipeline, subVars>>
    /\ UNCHANGED <<redVars, regVars>>

\* the step "Generate main pipeline"
RunGenerateMainPipeline ==
    /\ pc = "setup"
    /\ \E r \in {GenerateMainPipeline(pathInfo, requisites, LoadEnv(environ, osEnviron))} :
          /\ pc' = IF r.raised THEN "generate failed" ELSE "generated"
          /\ heap' = r.heap
          /\ drvs' = r.drvs
          /\ wired' = r.wired
          /\ pipeline' = r.p
          /\ stdout' = stdout \o r.printed
          /\ environ' = IF r.raised THEN environ ELSE r.env
    /\ UNCHANGED <<evalJobs, pathInfo, requisites, osEnviron, posts, response>>
    /\ UNCHANGED <<redVars, regVars>>

\* the step "Trigger continuation"
RunContinuation ==
    /\ pc = "generated"
    /\ \E answer \in Responses :
       \E r \in {Continuation(LoadEnv(environ, osEnviron), osEnviron, answer)} :
          /\ pc' = IF r.raised THEN "continuation failed" ELSE "continued"
          /\ posts' = posts \o r.posts
          /\ response' = IF r.posts = <<>> THEN "none" ELSE answer
          /\ stdout' = stdout \o r.printed
    /\ UNCHANGED <<inVars, heap, drvs, wired, pipeline, osEnviron>>
    /\ UNCHANGED <<redVars, regVars>>

MainNext ==
    \/ RunCacheShell
    \/ RunUpdatePinAndCommit
    \/ RunNixEvalJobs
    \/ RunCacheEvalJobs
    \/ RunGenerateMainPipeline
    \/ RunContinuation

SpecMain == MainInit /\ [][MainNext]_vars

\* ------------------------------------------------------------ the claims

\* C1: for every DAG given to a reducer, the returned graph has the same
\* nodes and exactly the same reachability as the input, and is again a DAG;
\* this holds for prune_graph on unit graphs and prune_deps on job instances.
C1_ReachabilityPreserved ==
    /\ redPc \in {"pg1", "pg2", "pd1", "pd2"} =>
          /\ Keys(redOut) = Keys(redIn)
          /\ Closure(GraphEdges(redHeap, redOut)) = Closure(GraphEdges(redHeap, redIn))
          /\ Acyclic(GraphEdges(redHeap, redOut))
    /\ redPc \in {"pd1", "pd2"} =>
          /\ Keys(redJobsOut) = Keys(redJobsIn)
          /\ Closure(JobEdges(redJobsOut)) = Closure(JobEdges(redJobsIn))
          /\ Acyclic(JobEdges(redJobsOut))

\* both reducers have run on a graph with a redundant edge and dropped it
C1_Witness ==
    /\ redPc = "pd1"
    /\ Cardinality(GraphEdges(redHeap, redOut)) < Cardinality(GraphEdges(redHeap, redIn))
    /\ Cardinality(JobEdges(redJobsOut)) < Cardinality(JobEdges(redJobsIn))
    /\ JobEdges(redJobsOut) # {}

\* C2: reduction is idempotent: reducing the output of a reducer again gives
\* the same nodes and the same edges, for prune_graph and for prune_deps.
C2_Idempotent ==
    /\ redPc \in {"pg2", "pd1", "pd2"} => GraphDeps(redHeap, redOut2) = GraphDeps(redHeap, redOut)
    /\ redPc = "pd2" => redJobsOut2 = redJobsOut

\* both reducers have run twice, the first run having dropped an edge
C2_Witness ==
    /\ redPc = "pd2"
    /\ GraphEdges(redHeap, redOut) # GraphEdges(redHeap, redIn)
    /\ GraphEdges(redHeap, redOut2) # {}
    /\ JobEdges(redJobsOut) # JobEdges(redJobsIn)
    /\ JobEdges(redJobsOut2) # {}

\* the job instances of the workflow of the returned Pipeline
WorkflowJobs == SeqSet(DictGet(pipeline.workflows, BuildAll).jobs)

\* the reference a job declared for a unit of that name is reached by
JobRef(name) == DictRef("jobs", GetSafeName(name))

\* the Derivations of the working set, and the deps among them
Units == {drvs[i].v : i \in 1..Len(drvs)}

UnitDeps == UNION {{<<u, heap[u].deps[m]>> : m \in 1..Len(heap[u].deps)} : u \in Units}

\* C3: in the document generate_build_pipeline returns, for any two units u
\* and v of the working set, the job instance of u lists the job of v in
\* requires if and only if v is a dependency of u and no other dependency of
\* u depends on v.
C3_RequiresSufficientAndMinimal ==
    pc = "compiled" =>
        \A u \in Units : \A v \in Units \ {u} :
            (\E inst \in WorkflowJobs :
                inst.job = JobRef(heap[u].name) /\ JobRef(heap[v].name) \in SeqSet(inst.requires))
            <=> (/\ <<u, v>> \in UnitDeps
                 /\ ~\E w \in Units \ {v} :
                        <<u, w>> \in UnitDeps /\ <<w, v>> \in Closure(UnitDeps))

\* C4: the instance of "built-all" is declared after the unit jobs and first
\* requires every other job instance; in the returned document it requires
\* exactly the unit job instances that no other unit job instance requires,
\* and every unit job instance is reachable from it through requires.
C4_BarrierRequiresSinks ==
    pc = "compiled" =>
        LET unitInsts == {x \in WorkflowJobs : x.job.key \notin {BuiltAll, MergeToMaster}}
            sinks == {x.job : x \in {y \in unitInsts :
                                       ~\E z \in unitInsts : y.job \in SeqSet(z.requires)}}
            edges == UNION {{<<x.job, r>> : r \in SeqSet(x.requires)} : x \in WorkflowJobs}
        IN  /\ wired[Len(wired)].k = BuiltAll
            /\ SeqSet(wired[Len(wired)].v.requires)
                  = {wired[i].v.job : i \in 1..(Len(wired) - 1)}
            /\ \A i \in 1..Len(drvs) : \E x \in unitInsts : x.job = JobRef(drvs[i].k)
            /\ \A b \in WorkflowJobs :
                  b.job.key = BuiltAll =>
                      /\ SeqSet(b.requires) = sinks
                      /\ \A x \in unitInsts : <<b.job, x.job>> \in Closure(edges)

\* whether the cache reported every output of an item present
AllPresent(item) ==
    \A o \in 1..Len(item.outputs) :
        \E e \in SeqSet(pathInfo) : e.k = item.outputs[o].v /\ e.v = "info"

\* C5: filter_cached removes a unit from the working set if and only if the
\* cache reported every one of its outputs present, an output that is null
\* in the answer or missing from it counting as absent; a unit that stays is
\* left as it was listed.
C5_RemovedIffAllOutputsPresent ==
    pc \in {"loaded", "compiled", "failed"} =>
        \A i \in 1..Len(evalJobs) :
            LET item == evalJobs[i]
            IN  /\ ~DictHas(drvs, item.attr) <=> AllPresent(item)
                /\ DictHas(drvs, item.attr) =>
                      LET d == heap[DictGet(drvs, item.attr)]
                      IN  /\ d.name = item.attr
                          /\ d.drv = item.drvPath
                          /\ d.outputs = item.outputs
                          /\ \E o \in 1..Len(d.outputs) :
                                \/ ~DictHas(pathInfo, d.outputs[o].v)
                                \/ DictGet(pathInfo, d.outputs[o].v) = "null"

\* one unit was removed and a unit with one output present and one absent
\* stayed
C5_Witness ==
    /\ pc = "loaded"
    /\ \E i \in 1..Len(evalJobs) : ~DictHas(drvs, evalJobs[i].attr)
    /\ \E i \in 1..Len(evalJobs) :
          /\ DictHas(drvs, evalJobs[i].attr)
          /\ Len(evalJobs[i].outputs) = 2
          /\ DictHas(pathInfo, evalJobs[i].outputs[1].v)
          /\ DictGet(pathInfo, evalJobs[i].outputs[1].v) = "info"

\* whether a job realizes the derivation of an item
Realizes(job, item) ==
    /\ job.cls = "StepsJob"
    /\ \E n \in 1..Len(job.steps) :
          /\ "fn" \in DOMAIN job.steps[n]
          /\ job.steps[n].fn = "realize_drv"
          /\ job.steps[n].args = <<PyStr(item.drvPath)>>

\* the keys under which the returned document holds jobs that are not the
\* job of the unit of this item: the other units that stayed, the barrier
\* and the merge job
KeysOfOthers(item) ==
    {GetSafeName(heap[u].name) : u \in Units} \cup {BuiltAll, MergeToMaster}

\* C6: a unit the cache filter removed is not in the returned document: no
\* job of the registry is its job, no job instance of the workflow is an
\* instance of its job and none requires it; every requires entry names the
\* job of a unit that stayed, or the barrier.
C6_CachedUnitsLeaveNoJob ==
    pc = "compiled" =>
        /\ \A i \in 1..Len(evalJobs) :
              AllPresent(evalJobs[i]) =>
                  /\ \A e \in SeqSet(pipeline.jobs) : ~Realizes(e.v, evalJobs[i])
                  /\ \A inst \in WorkflowJobs :
                        \A r \in {inst.job} \cup SeqSet(inst.requires) :
                            /\ ~Deref(pipeline, r).raised
                            /\ ~Realizes(Deref(pipeline, r).val, evalJobs[i])
                            /\ r.key = GetSafeName(evalJobs[i].attr)
                                  => r.key \in KeysOfOthers(evalJobs[i])
                  /\ GetSafeName(evalJobs[i].attr) \in KeySet(pipeline.jobs)
                        => GetSafeName(evalJobs[i].attr) \in KeysOfOthers(evalJobs[i])
        /\ \A inst \in WorkflowJobs : \A r \in SeqSet(inst.requires) :
              \/ r = DictRef("jobs", BuiltAll)
              \/ \E u \in Units :
                    /\ r = JobRef(heap[u].name)
                    /\ Realizes(DictGet(pipeline.jobs, r.key),
                                [drvPath |-> heap[u].drv])

\* a unit between two others was removed by the filter, and in the returned
\* document the instance of the one requires the job of the other
C6_Witness ==
    /\ pc = "compiled"
    /\ \E i \in 1..Len(evalJobs) : \E u \in Units : \E v \in Units \ {u} :
          /\ AllPresent(evalJobs[i])
          /\ evalJobs[i].drvPath \in SeqSet(DictGet(requisites, heap[u].drv))
          /\ heap[v].drv \in SeqSet(DictGet(requisites, evalJobs[i].drvPath))
          /\ \E inst \in WorkflowJobs :
                /\ inst.job = JobRef(heap[u].name)
                /\ inst.requires = <<JobRef(heap[v].name)>>

\* the registry a handle refers to, and whether its key is stored there
RegOf(h) == regP[h.ref.reg]

Stored(h) == DictHas(RegOf(h), h.ref.key)

\* C7: declaring an entity under a key that its registry already holds is a
\* fatal error: the call raises and the entity declared earlier stays.
C7_DuplicateKeyIsFatal ==
    [][\A reg \in {"jobs", "workflows", "executors", "parameters"} :
         \A k \in KeySet(regP[reg]) :
            (/\ regLast'.op = "declare"
             /\ regLast'.ref = Handle(reg, k, regLast'.val)
             /\ regLast'.val # None
             /\ regOps' = regOps + 1)
            => (regLast'.raised /\ regP' = regP)]_vars

\* C8: serializing a DictRef whose key is absent from its registry raises.
C8_DanglingSerializeRaises ==
    (regLast.op = "serialize" /\ ~Stored(regLast.ref)) => regLast.raised

\* C9: deref looks the key up when it is called: it raises when the key is
\* not stored, else returns the value stored under the key now, whether the
\* reference was made before the value was stored or with it, and whether
\* the document has been serialized or not.
C9_DerefLooksUp ==
    regLast.op = "deref" =>
        IF Stored(regLast.ref)
        THEN ~regLast.raised /\ regLast.val = DictGet(RegOf(regLast.ref), regLast.ref.ref.key)
        ELSE regLast.raised

\* a forward reference is resolved after its target was stored and the
\* document serialized
C9_Witness ==
    /\ regLast.op = "deref"
    /\ regLast.ref.fwd
    /\ ~regLast.raised
    /\ regLast.val = NoOpJob
    /\ regDumped

\* C10: a dumped document read back has the keys of jobs and of workflows
\* in the insertion order of the registries, for dump_yaml and dump_json.
C10_InsertionOrderKept ==
    regLast.op \in {"dump_yaml", "dump_json"} =>
        /\ ParsedKeys(regLast.val, K.jobs) = Keys(regP.jobs)
        /\ ParsedKeys(regLast.val, K.workflows) = Keys(regP.workflows)

\* the parsed body of the workflow stored at position w of the registry
ParsedWorkflow(w) ==
    DictGet(DictGet(regLast.val.items, K.workflows).items, regP.workflows[w].k)

\* C11: in a dumped document every job instance of every workflow is an
\* object with exactly one key, the key of the job it refers to; the value
\* under it has the keys of the instance's arguments and 'requires', lists
\* under 'requires' the keys of the required jobs in order, and holds every
\* argument under its name with its own value, a reference as its key.
C11_InstanceKeepsArguments ==
    regLast.op \in {"dump_yaml", "dump_json"} =>
        \A w \in 1..Len(regP.workflows) :
            LET wf == regP.workflows[w].v
                out == DictGet(ParsedWorkflow(w).items, K.jobs).items
            IN  /\ Len(out) = Len(wf.jobs)
                /\ \A i \in 1..Len(wf.jobs) :
                        LET x == wf.jobs[i]
                            data == out[i].items[1].v.items
                        IN  /\ Keys(out[i].items) = <<x.job.key>>
                            /\ KeySet(data) = KeySet(x.arguments) \cup {K.requires}
                            /\ DictGet(data, K.requires)
                                 = List([r \in 1..Len(x.requires) |-> Str(x.requires[r].key)])
                            /\ \A a \in 1..Len(x.arguments) :
                                    DictGet(data, x.arguments[a].k)
                                    = IF "cls" \in DOMAIN x.arguments[a].v
                                      THEN Str(x.arguments[a].v.key)
                                      ELSE x.arguments[a].v

\* whether a null occurs anywhere in a parsed document
RECURSIVE HasNull(_)
HasNull(doc) ==
    CASE doc.t = "none" -> TRUE
      [] doc.t = "map" -> \E i \in 1..Len(doc.items) : HasNull(doc.items[i].v)
      [] doc.t = "list" -> \E i \in 1..Len(doc.items) : HasNull(doc.items[i])
      [] OTHER -> FALSE

\* the parsed body of the job stored at position j of the registry
ParsedJob(j) == DictGet(DictGet(regLast.val.items, K.jobs).items, regP.jobs[j].k)

\* the optional fields of the stored entities: a field that is None has no
\* key in the dumped document, a field that is set has its key
SparseFields ==
    /\ \A j \in 1..Len(regP.jobs) :
            LET x == regP.jobs[j].v
                out == ParsedJob(j).items
            IN  x.cls = "StepsJob" =>
                    /\ DictHas(out, K.executor) /\ DictHas(out, K.steps)
                    /\ DictHas(out, K.parameters) <=> x.parameters # None
                    /\ DictHas(out, K.environment) <=> x.environment # None
                    /\ DictHas(out, K.shell) <=> x.shell # None
                    /\ \A i \in 1..Len(x.steps) :
                            x.steps[i].cls = "Run" =>
                                LET run == DictGet(out, K.steps).items[i].items[1].v.items
                                IN  /\ DictHas(run, K.name) /\ DictHas(run, K.command)
                                    /\ DictHas(run, K.shell) <=> x.steps[i].shell # None
                                    /\ DictHas(run, K.no_output_timeout)
                                         <=> x.steps[i].no_output_timeout # None
    /\ \A w \in 1..Len(regP.workflows) :
            /\ DictHas(ParsedWorkflow(w).items, K.jobs)
            /\ DictHas(ParsedWorkflow(w).items, K.when) <=> regP.workflows[w].v.when # None
    /\ \A q \in 1..Len(regP.parameters) :
            LET out == DictGet(DictGet(regLast.val.items, K.parameters).items,
                               regP.parameters[q].k).items
            IN  /\ DictHas(out, K.type)
                /\ DictHas(out, K.default) <=> regP.parameters[q].v.default # None

\* C12: in a dumped document a field that is None has no key, a field that
\* is set has its key, and no null occurs anywhere in the document.
C12_SparseAndNoNull ==
    regLast.op \in {"dump_yaml", "dump_json"} =>
        /\ SparseFields
        /\ ~HasNull(regLast.val)

\* the Run steps of the stored jobs, each with the 'run' object parsed back
\* from the dumped text
DumpedRuns ==
    UNION {{[step |-> regP.jobs[j].v.steps[i],
             run |-> DictGet(ParsedJob(j).items, K.steps).items[i].items[1].v.items]
            : i \in {n \in 1..Len(regP.jobs[j].v.steps) :
                        regP.jobs[j].v.steps[n].cls = "Run"}}
           : j \in {n \in 1..Len(regP.jobs) : regP.jobs[n].v.cls = "StepsJob"}}

UnitSteps(d) ==
    SetupSteps(DictGet(environ, "SHELL_PATH"))
    \o <<Bind(RealizeDrv, <<PyStr(d.drv)>>),
         Bind(CacheDrvOutputs, <<PyList([o \in 1..Len(d.outputs) |-> d.outputs[o].v])>>)>>

\* C13: for every working set load_derivations returns (the names are
\* unique and may contain '.'), generate_build_pipeline returns a document;
\* its jobs registry holds one job per unit, in the order of the working
\* set and under the unit's safe name, then the barrier (then the merge
\* job); the steps of a unit's job are the setup steps, the realize step
\* bound to the unit's drv path and the publish step bound to its outputs.
C13_OneJobPerUnit ==
    pc \in {"compiled", "failed"} =>
        /\ pc = "compiled"
        /\ Len(pipeline.jobs)
             = Len(drvs) + 1 + (IF DictHas(environ, "BRANCH_TO_MERGE") THEN 1 ELSE 0)
        /\ pipeline.jobs[Len(drvs) + 1].k = BuiltAll
        /\ \A i \in 1..Len(drvs) :
              /\ pipeline.jobs[i].k = GetSafeName(heap[drvs[i].v].name)
              /\ pipeline.jobs[i].v.cls = "StepsJob"
              /\ pipeline.jobs[i].v.steps = UnitSteps(heap[drvs[i].v])

Indirect(E, i, j) == \E e \in E : e[1] = i /\ <<e[2], j>> \in Closure(E)

\* C19: for every DAG of job instances, closed or not, prune_deps keeps the
\* requires edge i->j if and only if it is an edge of the input and the
\* input has no path of two or more edges from i to j; the result is the
\* transitive reduction: it has the reachability of the input and loses it
\* when any one of its edges is taken away.
C19_MatrixPowersReduce ==
    redPc \in {"pd1", "pd2"} =>
        LET E == JobEdges(redJobsIn)
            R == JobEdges(redJobsOut)
        IN  /\ R = {e \in E : ~Indirect(E, e[1], e[2])}
            /\ Closure(R) = Closure(E)
            /\ \A e \in R : Closure(R \ {e}) # Closure(E)

\* prune_deps has run on a DAG that is not closed and whose only path
\* besides a direct edge has three edges, and dropped the direct edge
C19_Witness ==
    /\ redPc = "pd1"
    /\ Closure(JobEdges(redJobsIn)) # JobEdges(redJobsIn)
    /\ \E e \in JobEdges(redJobsIn) \ JobEdges(redJobsOut) :
            \A m \in KeySet(redJobsIn) :
                ~(<<e[1], m>> \in JobEdges(redJobsIn) /\ <<m, e[2]>> \in JobEdges(redJobsIn))

\* C20 (as stated): for every DAG of units given to prune_graph, closed or
\* not, the edge n->d survives if and only if no other direct dependency of
\* n depends transitively on d.
C20_SurvivesIffNoTransitiveDep ==
    redPc \in {"pg1", "pg2", "pd1", "pd2"} =>
        LET E == GraphEdges(redHeap, redIn)
            R == GraphEdges(redHeap, redOut)
        IN  R = {e \in E : ~\E f \in E :
                                /\ f[1] = e[1] /\ f[2] # e[2]
                                /\ <<f[2], e[2]>> \in Closure(E)}

\* C20 (amended): for every DAG of units given to prune_graph the edge n->d
\* survives if and only if no other direct dependency of n has d among its
\* own direct dependencies; when the input is transitively closed, as the
\* graphs of load_derivations are, that is: if and only if no other direct
\* dependency of n depends transitively on d.
C20_SurvivesIffNoDirectDep ==
    redPc \in {"pg1", "pg2", "pd1", "pd2"} =>
        LET E == GraphEdges(redHeap, redIn)
            R == GraphEdges(redHeap, redOut)
        IN  /\ R = {e \in E : ~\E f \in E : f[1] = e[1] /\ <<f[2], e[2]>> \in E}
            /\ Closure(E) = E =>
                    R = {e \in E : ~\E f \in E :
                                        /\ f[1] = e[1] /\ f[2] # e[2]
                                        /\ <<f[2], e[2]>> \in Closure(E)}

\* prune_graph has run on a DAG that is not closed and kept an edge n->d
\* although another direct dependency of n reaches d through two edges
C20_Witness ==
    /\ redPc = "pg1"
    /\ \E e \in GraphEdges(redHeap, redOut) : \E f \in GraphEdges(redHeap, redIn) :
            /\ f[1] = e[1] /\ f[2] # e[2]
            /\ <<f[2], e[2]>> \in Closure(GraphEdges(redHeap, redIn))
            /\ <<f[2], e[2]>> \notin GraphEdges(redHeap, redIn)

\* whether wiring meets a name it cannot resolve: a key of jobs that is no
\* key of drvs, or a dependency whose name is no key of jobs
Unresolved ==
    LET jobKeys == {GetSafeName(drvs[i].k) : i \in 1..Len(drvs)}
    IN  \/ \E k \in jobKeys : ~DictHas(drvs, k)
        \/ \E i \in 1..Len(drvs) : \E dep \in SeqSet(heap[drvs[i].v].deps) :
                heap[dep].name \notin jobKeys

C16_FailureIsReported ==
    response \in {"non-2xx", "transport error"} =>
        /\ pc = "continuation failed"
        /\ Len(stdout) = 1

C21_OrderIndependent ==
    /\ [](LET n == Len(redIn)
              h0 == SubSeq(redHeap, 1, n)
              Perms == {s \in ListsOver(1..n) : Len(s) = n}
              Orders(xs) == {l \in ListsOver(SeqSet(xs)) : Len(l) = Len(xs)}
              RECURSIVE Reorder(_, _)
              \* every way to reorder the lists f(1) .. f(p)
              Reorder(f(_), p) ==
                  IF p = 0 THEN {<<>>}
                  ELSE {Append(t, l) : t \in Reorder(f, p - 1), l \in Orders(f(p))}
              HDeps(i) == h0[i].deps
              JDeps(i) == redJobsIn[i].v.requires
              Heaps == {[i \in 1..n |-> [h0[i] EXCEPT !.deps = d[i]]]
                            : d \in Reorder(HDeps, n)}
              Jobs == {[i \in 1..n |-> [redJobsIn[i] EXCEPT !.v.requires = d[i]]]
                            : d \in Reorder(JDeps, n)}
              Edges(r) == GraphEdges(r.heap, r.g)
          IN  /\ redPc = "pg1" =>
                    /\ \A s \in Perms :
                            Edges(PruneGraph(h0, [i \in 1..n |-> redIn[s[i]]]))
                                = GraphEdges(redHeap, redOut)
                    /\ \A h \in Heaps :
                            Edges(PruneGraph(h, redIn)) = GraphEdges(redHeap, redOut)
              /\ redPc = "pd1" =>
                    /\ \A s \in Perms :
                            JobEdges(PruneDeps([i \in 1..n |-> redJobsIn[s[i]]]))
                                = JobEdges(redJobsOut)
                    /\ \A js \in Jobs :
                            JobEdges(PruneDeps(js)) = JobEdges(redJobsOut))
    /\ [][/\ Len(redHeap') >= Len(redHeap)
          /\ SubSeq(redHeap', 1, Len(redHeap)) = redHeap
          /\ redIn' = redIn
          /\ redJobsIn' = redJobsIn]_vars

\* both reducers have run on a DAG of at least three nodes, one of them with
\* two dependencies in an order that is not that of the dict, and each
\* reducer dropped an edge
C21_Witness ==
    /\ redPc = "pd1"
    /\ Len(redIn) >= 3
    /\ \E i \in 1..Len(redIn) :
            /\ Len(redHeap[i].deps) >= 2
            /\ redHeap[i].deps[1] > redHeap[i].deps[2]
    /\ GraphEdges(redHeap, redOut) # GraphEdges(redHeap, redIn)
    /\ JobEdges(redJobsOut) # JobEdges(redJobsIn)
    /\ SubSeq(redHeap, 1, Len(redIn)) = HeapOf(Len(redIn), [i \in 1..Len(redIn) |-> redHeap[i].deps])

\* C22: after load_derivations, for every unit u of the working set: every
\* element of u.deps is a unit of the working set other than u whose drv is
\* among the requisites of u.drv, and every requisite of u.drv that is the
\* drv of a unit of the working set and is not u.drv is the drv of an element
\* of u.deps.  So no unit depends on itself, and a dependency that is reached
\* only through a unit the cache filter removed is a direct edge.
C22_DepsAreSurvivingRequisites ==
    pc \in {"loaded", "failed", "compiled"} =>
        LET Surviving == {drvs[n].v : n \in 1..Len(drvs)}
            Req(u) == SeqSet(DictGet(requisites, heap[u].drv))
        IN  \A u \in Surviving :
                /\ \A e \in SeqSet(heap[u].deps) :
                        /\ e \in Surviving
                        /\ e # u
                        /\ heap[e].drv \in Req(u)
                /\ \A w \in Surviving :
                        (heap[w].drv \in Req(u) /\ heap[w].drv # heap[u].drv)
                            => w \in SeqSet(heap[u].deps)
                /\ \A m \in 1..Len(heap) : \A w \in Surviving :
                        (/\ m \notin Surviving
                         /\ heap[m].drv \in Req(u) /\ m # u
                         /\ heap[w].drv \in SeqSet(DictGet(requisites, heap[m].drv))
                         /\ w # m /\ w # u)
                            => w \in SeqSet(heap[u].deps)

\* load_derivations has run on three units: the second is in the closure of
\* the first and was removed by the cache filter, the third is in the
\* closure of the second, and the first kept the third as its only dep
C22_Witness ==
    /\ pc = "loaded"
    /\ Len(heap) = 3
    /\ Keys(drvs) = <<heap[1].name, heap[3].name>>
    /\ heap[2].drv \in SeqSet(DictGet(requisites, heap[1].drv))
    /\ heap[3].drv \in SeqSet(DictGet(requisites, heap[2].drv))
    /\ heap[1].deps = <<3>>

\* C24: a dependency graph with a cycle, a self-loop included, is rejected:
\* when the job instances handed to prune_deps hold a cycle of requires,
\* generate_build_pipeline returns no Pipeline, and so never one in which
\* the edges of the cycle were dropped.
C24_CycleIsFatal ==
    pc = "compiled" => Acyclic(JobEdges(wired))

\* C25: in every Pipeline generate_build_pipeline returns, with the merge job
\* or without it, no reference dangles: the executor of every StepsJob, the
\* job of every job instance and every entry of its requires deref to an
\* entry of the registry of that Pipeline they were made for, and every key
\* of the jobs registry is the job of exactly one instance of the workflow
\* 'build-all'.
C25_NoDanglingReference ==
    pc = "compiled" =>
        LET insts == DictGet(pipeline.workflows, BuildAll).jobs
            Resolves(ref, reg) ==
                /\ ref.reg = reg
                /\ ~Deref(pipeline, ref).raised
                /\ Deref(pipeline, ref).val \in {pipeline[reg][i].v : i \in 1..Len(pipeline[reg])}
        IN  /\ Keys(pipeline.workflows) = <<BuildAll>>
            /\ \A i \in 1..Len(pipeline.jobs) :
                    pipeline.jobs[i].v.cls = "StepsJob"
                        => Resolves(pipeline.jobs[i].v.executor, "executors")
            /\ \A i \in 1..Len(insts) :
                    /\ Resolves(insts[i].job, "jobs")
                    /\ \A r \in SeqSet(insts[i].requires) : Resolves(r, "jobs")
            /\ \A k \in KeySet(pipeline.jobs) :
                    Cardinality({i \in 1..Len(insts) : insts[i].job.key = k}) = 1

\* a Pipeline was returned with the merge job and two unit jobs, one of
\* which requires the other
C25_Witness ==
    /\ pc = "compiled"
    /\ DictHas(pipeline.jobs, MergeToMaster)
    /\ Len(pipeline.jobs) = 4
    /\ \E x \in WorkflowJobs : \E r \in SeqSet(x.requires) :
            /\ x.job.key \notin {BuiltAll, MergeToMaster}
            /\ r.key \notin {BuiltAll, MergeToMaster}
            /\ Deref(pipeline, r).val.cls = "StepsJob"

\* C23: load_derivations drops, after the units the cache satisfies, the
\* units whose metadata marks them disabled: such a unit is not in the
\* working set, no unit of the working set has it as a dependency, and the
\* Pipeline holds no job for it.
C23_DisabledIsDropped ==
    pc \in {"generated", "generate failed", "continued", "continuation failed"} =>
        \A i \in 1..Len(evalJobs) :
            evalJobs[i].meta.disabled =>
                /\ ~DictHas(drvs, evalJobs[i].attr)
                /\ \A u \in Units : i \notin SeqSet(heap[u].deps)
                /\ pipeline # None =>
                        \A j \in 1..Len(pipeline.jobs) :
                            pipeline.jobs[j].v.cls = "StepsJob" =>
                                Bind(RealizeDrv, <<PyStr(evalJobs[i].drvPath)>>)
                                    \notin SeqSet(pipeline.jobs[j].v.steps)

====
